---------------------------- MODULE Spec2Model ----------------------------
(***************************************************************************)
(* A model of main.py, the Minecraft raw-material calculator:              *)
(*   Material.raw_units_needed      the batch arithmetic                    *)
(*   MinecraftCalculator.__init__   loading recipes.json, or the default    *)
(*   MinecraftCalculator.run        the interactive loop                    *)
(*                                                                         *)
(* Text is modelled as sequences of one-character strings, so that          *)
(* str.strip, str.lower, str.isdigit and int(str) are computed character    *)
(* by character.  Python ints are unbounded and Python floats are IEEE-754  *)
(* doubles; both are modelled on binary numerals, so that the rounding of   *)
(* quantity / batch_output and of batches * raw_per_batch is the rounding   *)
(* a double performs.                                                       *)
(***************************************************************************)
EXTENDS Integers, Sequences, FiniteSets, TLC

(***************************************************************************)
(* Unbounded naturals (Python int >= 0) as numerals: a sequence of limbs   *)
(* of LimbBits bits each, least significant first, whose last limb is not  *)
(* zero; zero is the empty sequence.  Any limb width gives the same        *)
(* numbers; the small operands below (multipliers, divisors, carries) are  *)
(* less than 2^6.                                                          *)
(***************************************************************************)
LimbBits == 24
Base == 2 ^ LimbBits

RECURSIVE BigOfNat(_)
BigOfNat(n) == IF n = 0 THEN <<>> ELSE <<n % Base>> \o BigOfNat(n \div Base)

RECURSIVE Trim(_)
Trim(limbs) ==
  IF limbs = <<>> THEN <<>>
  ELSE IF limbs[Len(limbs)] # 0 THEN limbs
  ELSE Trim(SubSeq(limbs, 1, Len(limbs) - 1))

\* x * m + a for a numeral x and small naturals m, a
RECURSIVE MulAddFrom(_, _, _, _)
MulAddFrom(x, m, carry, i) ==
  IF i > Len(x) THEN BigOfNat(carry)
  ELSE LET t == x[i] * m + carry
       IN  <<t % Base>> \o MulAddFrom(x, m, t \div Base, i + 1)

BigMulAdd(x, m, a) == Trim(MulAddFrom(x, m, a, 1))

\* x + y
RECURSIVE AddFrom(_, _, _, _)
AddFrom(x, y, carry, i) ==
  IF i > Len(x) /\ i > Len(y) THEN BigOfNat(carry)
  ELSE LET t == (IF i <= Len(x) THEN x[i] ELSE 0)
                + (IF i <= Len(y) THEN y[i] ELSE 0) + carry
       IN  <<t % Base>> \o AddFrom(x, y, t \div Base, i + 1)

BigAdd(x, y) == Trim(AddFrom(x, y, 0, 1))

\* long division of a numeral by a small natural d >= 1, most significant
\* limb first: <<quotient limbs, remainder>>
RECURSIVE DivFrom(_, _, _, _, _)
DivFrom(x, d, i, acc, rem) ==
  IF i = 0 THEN <<acc, rem>>
  ELSE LET t == rem * Base + x[i]
       IN  DivFrom(x, d, i - 1, <<t \div d>> \o acc, t % d)

\* [quot |-> x div d, rem |-> x mod d]
BigDivMod(x, d) ==
  LET r == DivFrom(x, d, Len(x), <<>>, 0)
  IN  [quot |-> Trim(r[1]), rem |-> r[2]]

RECURSIVE BigLessFrom(_, _, _)
BigLessFrom(x, y, i) ==
  IF i = 0 THEN FALSE
  ELSE IF x[i] # y[i] THEN x[i] < y[i]
  ELSE BigLessFrom(x, y, i - 1)

BigLess(x, y) ==
  \/ Len(x) < Len(y)
  \/ Len(x) = Len(y) /\ BigLessFrom(x, y, Len(x))

BigLeq(x, y) == x = y \/ BigLess(x, y)

\* 2^k
BigPow2(k) == [i \in 1..(k \div LimbBits) |-> 0] \o <<2 ^ (k % LimbBits)>>

\* the number of bits of x, and its bit i (bit 1 is the least significant)
BitLen(x) ==
  IF x = <<>> THEN 0
  ELSE (Len(x) - 1) * LimbBits
       + (CHOOSE k \in 1..LimbBits :
            2 ^ (k - 1) <= x[Len(x)] /\ x[Len(x)] < 2 ^ k)

Bit(x, i) ==
  LET j == (i - 1) \div LimbBits + 1
  IN  IF i < 1 \/ j > Len(x) THEN 0
      ELSE (x[j] \div (2 ^ ((i - 1) % LimbBits))) % 2

\* x with its k lowest bits cleared
ClearLow(x, k) ==
  Trim([j \in 1..Len(x) |->
          LET below == (j - 1) * LimbBits
          IN  IF below + LimbBits <= k THEN 0
              ELSE IF below >= k THEN x[j]
              ELSE x[j] - (x[j] % (2 ^ (k - below)))])

(***************************************************************************)
(* IEEE-754 double precision: 53 significant bits, round to nearest, ties  *)
(* to even.                                                                *)
(***************************************************************************)
MantissaBits == 53

\* x rounded at its bit k + 1: down to ClearLow(x, k), or up to the next
\* multiple of 2^k
RoundAt(x, k, up) ==
  IF up THEN BigAdd(ClearLow(x, k), BigPow2(k)) ELSE ClearLow(x, k)

\* the double nearest to the natural x, itself an integer: float(x)
RoundToDouble(x) ==
  IF BitLen(x) <= MantissaBits THEN x
  ELSE LET k      == BitLen(x) - MantissaBits
           half   == Bit(x, k) = 1
           sticky == \E i \in 1..(k - 1) : Bit(x, i) = 1
           odd    == Bit(x, k + 1) = 1
       IN  RoundAt(x, k, half /\ (sticky \/ odd))

\* CeilOfQuotient with the operands of the division exchanged:
\* math.ceil(batch_output / quantity)
CeilOfQuotientSwapped(quantity, b) ==
  IF quantity = <<>> \/ BigLeq(BigOfNat(b), quantity) THEN BigOfNat(1)
  ELSE BigOfNat((b + quantity[1] - 1) \div quantity[1])

\* math.ceil(quantity / batch_output): `/` on two ints is the correctly
\* rounded double quotient, and math.ceil of a double is the exact int.
\* With n = quantity div b and rem = quantity mod b the quotient n + rem/b
\* is rounded to 53 significant bits: when n has fewer than 53 bits the
\* fraction rem/b keeps 53 - BitLen(n) bits, otherwise n itself is rounded.
CeilOfQuotient(quantity, b) ==
  LET dm  == BigDivMod(quantity, b)
      n   == dm.quot
      rem == dm.rem
  IN  IF rem = 0 THEN RoundToDouble(n)
      ELSE IF n = <<>> THEN BigOfNat(1)
      ELSE IF BitLen(n) > MantissaBits THEN
        \* the fraction lies below the last kept bit: it is what makes a
        \* tie round up
        LET k == BitLen(n) - MantissaBits
        IN  RoundAt(n, k, Bit(n, k) = 1)
      ELSE
        LET f == MantissaBits - BitLen(n)    \* fraction bits the double keeps
            \* the fraction rounds to zero iff rem/b < 2^-(f+1), or it is
            \* exactly 2^-(f+1) and the mantissa n * 2^f is even
            small  == f + 1 < 31 /\ b >= (2 ^ (f + 1))
            scaled == rem * (2 ^ (f + 1))
            toZero == /\ small
                      /\ \/ scaled < b
                         \/ scaled = b /\ (f >= 1 \/ Bit(n, 1) = 0)
        IN  IF toZero THEN n ELSE BigMulAdd(n, 1, 1)

\* int * float: the int is converted to the nearest double, the product of
\* the two doubles is rounded again.  A float is held as its number of
\* quarters (0.25 is 1, 1.0 is 4), which a double holds exactly, so the
\* product of float(c) and quarters/4 is the rounded c * quarters, in
\* quarters.
\* A float value is [neg |-> its sign bit, mag |-> its magnitude].
Abs(k) == IF k < 0 THEN -k ELSE k

FloatMul(c, quarters) ==
  [neg |-> quarters < 0,
   mag |-> RoundToDouble(BigMulAdd(RoundToDouble(c), Abs(quarters), 0))]

NoFloat == [neg |-> FALSE, mag |-> <<>>]

\* x < 0 and x <= y on floats (-0.0 is not negative)
FloatNegative(x) == x.neg /\ x.mag # <<>>

FloatLeq(x, y) ==
  CASE FloatNegative(x) /\ FloatNegative(y) -> BigLeq(y.mag, x.mag)
    [] FloatNegative(x)                     -> TRUE
    [] FloatNegative(y)                     -> FALSE
    [] OTHER                                -> BigLeq(x.mag, y.mag)

(***************************************************************************)
(* Text: a str is a sequence of characters.  The two characters outside    *)
(* ASCII are named by their code points: U+0663 (ARABIC-INDIC DIGIT THREE, *)
(* a decimal digit) and U+00B2 (SUPERSCRIPT TWO, a digit that is not a     *)
(* decimal digit).                                                         *)
(***************************************************************************)
UpperCase == <<"A", "B", "C", "D", "E", "F", "G", "H", "I", "J", "K", "L", "M",
               "N", "O", "P", "Q", "R", "S", "T", "U", "V", "W", "X", "Y", "Z">>
LowerCase == <<"a", "b", "c", "d", "e", "f", "g", "h", "i", "j", "k", "l", "m",
               "n", "o", "p", "q", "r", "s", "t", "u", "v", "w", "x", "y", "z">>
AsciiDigits == <<"0", "1", "2", "3", "4", "5", "6", "7", "8", "9">>
Whitespace == {" ", "\t"}

IndexIn(seq, c) == CHOOSE i \in 1..Len(seq) : seq[i] = c
IsIn(seq, c) == \E i \in 1..Len(seq) : seq[i] = c

\* str.lower()
lower(s) ==
  [i \in 1..Len(s) |->
     IF IsIn(UpperCase, s[i]) THEN LowerCase[IndexIn(UpperCase, s[i])] ELSE s[i]]

\* str.strip()
RECURSIVE lstrip(_)
lstrip(s) ==
  IF s # <<>> /\ s[1] \in Whitespace THEN lstrip(Tail(s)) ELSE s

RECURSIVE rstrip(_)
rstrip(s) ==
  IF s # <<>> /\ s[Len(s)] \in Whitespace
  THEN rstrip(SubSeq(s, 1, Len(s) - 1)) ELSE s

strip(s) == rstrip(lstrip(s))

\* the characters str.isdigit() accepts, and those among them int() accepts
IsDecimalChar(c) == IsIn(AsciiDigits, c) \/ c = "U+0663"
IsDigitChar(c) == IsDecimalChar(c) \/ c = "U+00B2"
DigitValue(c) == IF c = "U+0663" THEN 3 ELSE IndexIn(AsciiDigits, c) - 1

\* str.isdigit(): non-empty and every character a digit
isdigit(s) == s # <<>> /\ \A i \in 1..Len(s) : IsDigitChar(s[i])

RECURSIVE DigitsValue(_, _, _)
DigitsValue(s, i, acc) ==
  IF i > Len(s) THEN acc
  ELSE DigitsValue(s, i + 1, BigMulAdd(acc, 10, DigitValue(s[i])))

\* int(s) for a str s that passed isdigit(): the value, or ValueError when
\* a character is a digit but not a decimal digit
int_of_str(s) ==
  IF \A i \in 1..Len(s) : IsDecimalChar(s[i])
  THEN [exc |-> "none", value |-> DigitsValue(s, 1, <<>>)]
  ELSE [exc |-> "ValueError", value |-> <<>>]

(***************************************************************************)
(* JSON values of the recipe fields.  A number is an int (v is the value)  *)
(* or a float (v is the value in quarters); null is the one non-number.    *)
(***************************************************************************)
JInt(k) == [t |-> "int", v |-> k]
JFloat(quarters) == [t |-> "float", v |-> quarters]
JNull == [t |-> "null", v |-> 0]

\* int(x): an int is itself, a float is truncated, None is a TypeError
int_of(x) ==
  CASE x.t = "int"   -> [exc |-> "none", value |-> x.v]
    [] x.t = "float" -> [exc |-> "none",
                         value |-> IF x.v < 0 THEN -((-x.v) \div 4) ELSE x.v \div 4]
    [] OTHER         -> [exc |-> "TypeError", value |-> 0]

\* float(x), in quarters
float_of(x) ==
  CASE x.t = "int"   -> [exc |-> "none", value |-> 4 * x.v]
    [] x.t = "float" -> [exc |-> "none", value |-> x.v]
    [] OTHER         -> [exc |-> "TypeError", value |-> 0]

\* A recipes value: a dict (items maps item names to entries) or, when the
\* file holds a number in its place, not a dict.
Dict(items) == [t |-> "dict", items |-> items]
NotADict == [t |-> "number", items |-> <<>>]

(***************************************************************************)
(* Material.raw_units_needed(item, quantity).  The outcome holds the       *)
(* exception raised ("none": it returned), the value returned (a float, in *)
(* quarters) and self.recipes as the call leaves it.  The files of the     *)
(* model hold no negative batch_output, and quantity is a natural.         *)
(***************************************************************************)
Raise(e, recipes) == [exc |-> e, value |-> NoFloat, recipes |-> recipes]

\* lines 29-34: the entry's fields are read and converted, then the
\* batches are counted and multiplied
raw_units_of_entry(recipes, entry, quantity) ==
  IF "batch_output" \notin DOMAIN entry THEN Raise("KeyError", recipes)
  ELSE IF int_of(entry.batch_output).exc # "none"
    THEN Raise(int_of(entry.batch_output).exc, recipes)
  ELSE IF "raw_per_batch" \notin DOMAIN entry THEN Raise("KeyError", recipes)
  ELSE IF float_of(entry.raw_per_batch).exc # "none"
    THEN Raise(float_of(entry.raw_per_batch).exc, recipes)
  ELSE
    LET batch_output  == int_of(entry.batch_output).value
        raw_per_batch == float_of(entry.raw_per_batch).value
    IN  IF batch_output = 0 THEN Raise("ZeroDivisionError", recipes)
        ELSE
          LET batches_required == CeilOfQuotient(quantity, batch_output)
          IN  [exc     |-> "none",
               value   |-> FloatMul(batches_required, raw_per_batch),
               recipes |-> recipes]

\* raw_units_needed without the check of lines 26-27: the lookup of line 29
\* raises KeyError
raw_units_needed_unchecked(recipes, item, quantity) ==
  IF recipes.t # "dict" THEN Raise("TypeError", recipes)
  ELSE IF item \notin DOMAIN recipes.items THEN Raise("KeyError", recipes)
  ELSE raw_units_of_entry(recipes, recipes.items[item], quantity)

\* raw_units_needed taking the entry out of the dict (self.recipes.pop(item))
\* instead of reading it
raw_units_needed_pop(recipes, item, quantity) ==
  IF recipes.t # "dict" THEN Raise("TypeError", recipes)
  ELSE IF item \notin DOMAIN recipes.items THEN Raise("ValueError", recipes)
  ELSE LET rest == Dict([i \in DOMAIN recipes.items \ {item} |-> recipes.items[i]])
       IN  raw_units_of_entry(rest, recipes.items[item], quantity)

raw_units_needed(recipes, item, quantity) ==
  IF recipes.t # "dict" THEN Raise("TypeError", recipes)
  ELSE IF item \notin DOMAIN recipes.items THEN Raise("ValueError", recipes)
  ELSE raw_units_of_entry(recipes, recipes.items[item], quantity)

(***************************************************************************)
(* MinecraftCalculator.__init__: the recipes file and the built-in default *)
(***************************************************************************)
wood        == <<"w", "o", "o", "d">>
cobblestone == <<"c", "o", "b", "b", "l", "e", "s", "t", "o", "n", "e">>
plank       == <<"p", "l", "a", "n", "k">>
stick       == <<"s", "t", "i", "c", "k">>
door        == <<"d", "o", "o", "r">>
furnace     == <<"f", "u", "r", "n", "a", "c", "e">>

Recipe(bo, rp) == [batch_output |-> bo, raw_per_batch |-> rp]

\* the literal of lines 44-53
DefaultRecipes ==
  (wood :> Dict((plank :> Recipe(JInt(4), JFloat(4)))
             @@ (stick :> Recipe(JInt(4), JFloat(1)))
             @@ (door  :> Recipe(JInt(3), JFloat(6)))))
  @@ (cobblestone :> Dict(furnace :> Recipe(JInt(1), JFloat(32))))

\* Names a recipes file may use besides those of the default: a material
\* and an item in lower case, in mixed case, and a material named like the
\* quit sentinel.
stone     == <<"s", "t", "o", "n", "e">>
slab      == <<"s", "l", "a", "b">>
WoodMixed == <<"W", "o", "o", "d">>
DoorMixed == <<"D", "o", "o", "r">>
quit      == <<"q">>

\* Recipe entries a parseable file may hold: well-formed ones, and entries
\* with a zero batch size, a fractional batch size, a negative cost, a
\* null or a missing field.
FileEntries ==
  { Recipe(JInt(2), JFloat(3)),
    Recipe(JInt(5), JInt(1)),
    Recipe(JFloat(10), JFloat(0)),
    Recipe(JInt(0), JFloat(4)),
    Recipe(JFloat(2), JFloat(4)),
    Recipe(JNull, JFloat(4)),
    Recipe(JInt(2), JNull),
    Recipe(JInt(2), JFloat(-4)),
    [raw_per_batch |-> JFloat(4)],
    [batch_output |-> JInt(2)] }

\* What json.load returns for a file that parses to an object: the default
\* data written to a file, one material with one recipe entry, materials
\* and items whose names are not lower case, and a material whose value is
\* not an object.
FileCatalogs ==
  {DefaultRecipes}
  \cup {stone :> Dict(slab :> e) : e \in FileEntries}
  \cup {m :> Dict(i :> Recipe(JInt(2), JFloat(3))) :
          m \in {WoodMixed, quit}, i \in {slab, DoorMixed}}
  \cup {stone :> NotADict}

\* The outcomes of lines 40-41: open() raises FileNotFoundError or another
\* OSError (PermissionError, IsADirectoryError), reading raises
\* UnicodeDecodeError, json.load raises JSONDecodeError, or it returns the
\* parsed value: an object, or a value that is no object (a list).
Load(kind, data) == [kind |-> kind, data |-> data]

FileOutcomes ==
  {Load(k, <<>>) : k \in {"FileNotFoundError", "PermissionError",
                          "UnicodeDecodeError", "JSONDecodeError", "list"}}
  \cup {Load("object", c) : c \in FileCatalogs}

\* __init__: [exc |-> the exception that leaves it, materials |-> self.materials]
\* The except clause names FileNotFoundError and json.JSONDecodeError only;
\* a list has no .items().
Construct(f) ==
  CASE f.kind \in {"FileNotFoundError", "JSONDecodeError"} ->
         [exc |-> "none", materials |-> DefaultRecipes]
    [] f.kind = "object" -> [exc |-> "none", materials |-> f.data]
    [] f.kind = "list"   -> [exc |-> "AttributeError", materials |-> <<>>]
    [] OTHER             -> [exc |-> f.kind, materials |-> <<>>]

\* list_items_for(material_name): the exception it raises, "none" when it
\* prints the list.  The catalogs of the model hold at most one ill-formed
\* entry per material, so the order of the loop does not decide which
\* exception is raised.
EntryPrintError(info) ==
  IF "batch_output" \notin DOMAIN info THEN "KeyError"
  ELSE IF "raw_per_batch" \notin DOMAIN info THEN "KeyError"
  ELSE IF info.batch_output.t = "null" THEN "TypeError"   \* format(None, "<2")
  ELSE "none"

list_items_for(mats, material_name) ==
  IF material_name \notin DOMAIN mats THEN "KeyError"
  ELSE LET recipes == mats[material_name]
       IN  IF recipes.t # "dict" THEN "AttributeError"
           ELSE LET bad == {i \in DOMAIN recipes.items :
                              EntryPrintError(recipes.items[i]) # "none"}
                IN  IF bad = {} THEN "none"
                    ELSE EntryPrintError(recipes.items[CHOOSE i \in bad : TRUE])

(***************************************************************************)
(* MinecraftCalculator.run: what one pass through each prompt does.  An    *)
(* input is a line read by input(), or the end of the input (EOFError).    *)
(* Each operator gives the place the loop is at next (pc), the exception   *)
(* that ends the program ("none": none) and the message printed.           *)
(***************************************************************************)
Outcome(pc_, exc, msg) == [pc |-> pc_, exc |-> exc, msg |-> msg]

\* run_select_material looking the material up before it looks for the
\* quit sentinel
run_select_material_lookup_first(mats, ln) ==
  IF ln.eof THEN Outcome("Crashed", "EOFError", "nothing")
  ELSE LET choice_ == lower(strip(ln.text))
       IN  IF choice_ \in DOMAIN mats
             THEN IF list_items_for(mats, choice_) # "none"
                    THEN Outcome("Crashed", list_items_for(mats, choice_), "nothing")
                  ELSE Outcome("SelectItem", "none", "items")
           ELSE IF choice_ = quit THEN Outcome("Done", "none", "goodbye")
           ELSE Outcome("SelectMaterial", "none", "invalid_material")

\* lines 85-95: the material prompt
run_select_material(mats, ln) ==
  IF ln.eof THEN Outcome("Crashed", "EOFError", "nothing")
  ELSE LET choice_ == lower(strip(ln.text))
       IN  IF choice_ = quit THEN Outcome("Done", "none", "goodbye")
           ELSE IF choice_ \notin DOMAIN mats
             THEN Outcome("SelectMaterial", "none", "invalid_material")
           ELSE IF list_items_for(mats, choice_) # "none"
             THEN Outcome("Crashed", list_items_for(mats, choice_), "nothing")
           ELSE Outcome("SelectItem", "none", "items")

\* lines 97-100: the item prompt
run_select_item(mats, choice_, ln) ==
  IF ln.eof THEN Outcome("Crashed", "EOFError", "nothing")
  ELSE IF lower(strip(ln.text)) \notin DOMAIN mats[choice_].items
    THEN Outcome("SelectMaterial", "none", "item_not_found")
  ELSE Outcome("EnterQuantity", "none", "nothing")

\* lines 102-109: the quantity prompt.  called: whether raw_units_needed
\* was called, with quantity qty; res is its outcome.
QtyOutcome(pc_, exc, msg, called, qty, res) ==
  [pc |-> pc_, exc |-> exc, msg |-> msg, called |-> called, qty |-> qty,
   res |-> res]

run_enter_quantity(mats, choice_, item_, ln) ==
  LET recipes == mats[choice_]
      none    == Raise("none", recipes)
  IN
  IF ln.eof THEN QtyOutcome("Crashed", "EOFError", "nothing", FALSE, <<>>, none)
  ELSE
    LET qty_str == strip(ln.text)
        qty     == int_of_str(qty_str)
    IN  IF ~isdigit(qty_str)
          THEN QtyOutcome("SelectMaterial", "none", "bad_quantity", FALSE, <<>>, none)
        ELSE IF qty.exc # "none"
          THEN QtyOutcome("Crashed", qty.exc, "nothing", FALSE, <<>>, none)
        ELSE IF qty.value = <<>>
          THEN QtyOutcome("SelectMaterial", "none", "bad_quantity", FALSE, <<>>, none)
        ELSE
          LET res == raw_units_needed(recipes, item_, qty.value)
          IN  IF res.exc # "none"
                THEN QtyOutcome("Crashed", res.exc, "nothing", TRUE, qty.value, res)
              ELSE QtyOutcome("SelectMaterial", "none", "result", TRUE, qty.value, res)

(***************************************************************************)
(* Bounds of the model and the inputs drawn within them                    *)
(***************************************************************************)
\* the longest quantity typed character by character
MaxQtyLen == 2
\* the largest small quantity passed to raw_units_needed directly
MaxQty == 6
\* the large quantities passed to raw_units_needed directly are
\* 3 * 2^52 + k for k in 0..MaxBigOffset
MaxBigOffset == 3

QtyChars == {"0", "1", "5", "-", " ", "a", "U+00B2", "U+0663"}

\* 2^53 + 1 and 3 * 2^52 + 1, typed in full
BigQtyLines ==
  { <<"9", "0", "0", "7", "1", "9", "9", "2", "5", "4", "7", "4", "0", "9", "9", "3">>,
    <<"1", "3", "5", "1", "0", "7", "9", "8", "8", "8", "2", "1", "1", "1", "4", "8", "9">> }

QtyLines ==
  UNION {[1..n -> QtyChars] : n \in 0..MaxQtyLen} \cup BigQtyLines

\* Lines typed at the material and item prompts: every name a catalog of
\* the model shows, as shown; the default's names and the quit sentinel in
\* capitals and with spaces around them; an empty line and a number.
NameLines ==
  {wood, cobblestone, plank, stick, door, furnace, stone, slab, WoodMixed,
   DoorMixed, quit}
  \cup {<<" ", "W", "O", "O", "D", " ">>, <<"P", "l", "a", "n", "k">>,
        <<" ", "Q", " ">>, <<>>, <<"5">>}

\* what input() gives: a line, or the end of the input
NoLine == [eof |-> FALSE, text |-> <<>>]
Inputs(lines) ==
  {[eof |-> TRUE, text |-> <<>>]} \cup {[eof |-> FALSE, text |-> s] : s \in lines}

\* quantities passed to raw_units_needed directly: 0..MaxQty, and the
\* quantities around 3 * 2^52
BigBase == BigAdd(BigPow2(52), BigPow2(53))
ApiQuantities ==
  {BigOfNat(q) : q \in 0..MaxQty}
  \cup {BigMulAdd(BigBase, 1, k) : k \in 0..MaxBigOffset}

\* items asked of a material directly: its own, and one it does not have
ApiItems(recipes) ==
  IF recipes.t # "dict" THEN {slab}
  ELSE DOMAIN recipes.items
       \cup {IF slab \in DOMAIN recipes.items THEN plank ELSE slab}

(***************************************************************************)
(* The state                                                               *)
(***************************************************************************)
VARIABLES
  file,       \* what reading RECIPE_FILE gives
  pc,         \* "start", "constructed", the prompt run() waits at, "Done", "Crashed"
  materials,  \* self.materials: material name -> Material.recipes
  error,      \* the uncaught exception that ended the program, or "none"
  choice,     \* run()'s local choice
  item,       \* run()'s local item
  line,       \* the input the latest prompt read
  out,        \* what the latest step printed
  call        \* the raw_units_needed call of the latest step, and its outcome

vars == <<file, pc, materials, error, choice, item, line, out, call>>

\* run() assigns choice and item before it reads them in every pass of its
\* loop; the values a pass leaves behind are never read, and the model
\* holds the empty string for them while the loop is at the material prompt.

Printed(msg, value) == [msg |-> msg, value |-> value]

NoCall == [made |-> FALSE, material |-> <<>>, item |-> <<>>, quantity |-> <<>>,
           exc |-> "none", value |-> NoFloat]

Called(m, i, q, res) ==
  [made |-> TRUE, material |-> m, item |-> i, quantity |-> q,
   exc |-> res.exc, value |-> res.value]

Init ==
  /\ file \in FileOutcomes
  /\ pc = "start"
  /\ materials = <<>>
  /\ error = "none"
  /\ choice = <<>>
  /\ item = <<>>
  /\ line = NoLine
  /\ out = Printed("nothing", NoFloat)
  /\ call = NoCall

\* app = MinecraftCalculator()
New ==
  /\ pc = "start"
  /\ LET r == Construct(file)
     IN  /\ pc' = IF r.exc = "none" THEN "constructed" ELSE "Crashed"
         /\ error' = r.exc
         /\ materials' = r.materials
  /\ UNCHANGED <<file, choice, item, line, out, call>>

\* a direct call of Material.raw_units_needed on one of the materials
CallRawUnitsNeeded ==
  /\ pc = "constructed"
  /\ \E m \in DOMAIN materials :
       \E i \in ApiItems(materials[m]) :
         \E q \in ApiQuantities :
           LET res == raw_units_needed(materials[m], i, q)
           IN  /\ call' = Called(m, i, q, res)
               /\ materials' = [materials EXCEPT ![m] = res.recipes]
  /\ out' = Printed("nothing", NoFloat)
  /\ UNCHANGED <<file, pc, error, choice, item, line>>

\* a direct call of list_materials
CallListMaterials ==
  /\ pc = "constructed"
  /\ out' = Printed("materials", NoFloat)
  /\ UNCHANGED <<file, pc, materials, error, choice, item, line, call>>

\* a direct call of list_items_for, for a material or for a name that is none
CallListItemsFor ==
  /\ pc = "constructed"
  /\ \E m \in DOMAIN materials \cup {slab} :
       out' = Printed(IF list_items_for(materials, m) = "none" THEN "items"
                      ELSE list_items_for(materials, m), NoFloat)
  /\ UNCHANGED <<file, pc, materials, error, choice, item, line, call>>

\* app.run(): the banner and the first list_materials
StartRun ==
  /\ pc = "constructed"
  /\ pc' = "SelectMaterial"
  /\ out' = Printed("materials", NoFloat)
  /\ call' = NoCall
  /\ UNCHANGED <<file, materials, error, choice, item, line>>

Local(pc_, value) == IF pc_ = "SelectMaterial" THEN <<>> ELSE value

SelectMaterial ==
  /\ pc = "SelectMaterial"
  /\ \E ln \in Inputs(NameLines) :
       LET r == run_select_material(materials, ln)
       IN  /\ line' = ln
           /\ choice' = IF ln.eof THEN choice
                        ELSE Local(r.pc, lower(strip(ln.text)))
           /\ pc' = r.pc
           /\ error' = r.exc
           /\ out' = Printed(r.msg, NoFloat)
  /\ call' = NoCall
  /\ UNCHANGED <<file, materials, item>>

SelectItem ==
  /\ pc = "SelectItem"
  /\ \E ln \in Inputs(NameLines) :
       LET r == run_select_item(materials, choice, ln)
       IN  /\ line' = ln
           /\ item' = IF ln.eof THEN item
                      ELSE Local(r.pc, lower(strip(ln.text)))
           /\ choice' = Local(r.pc, choice)
           /\ pc' = r.pc
           /\ error' = r.exc
           /\ out' = Printed(r.msg, NoFloat)
  /\ call' = NoCall
  /\ UNCHANGED <<file, materials>>

EnterQuantity ==
  /\ pc = "EnterQuantity"
  /\ \E ln \in Inputs(QtyLines) :
       LET r == run_enter_quantity(materials, choice, item, ln)
       IN  /\ line' = ln
           /\ pc' = r.pc
           /\ error' = r.exc
           /\ out' = Printed(r.msg, r.res.value)
           /\ call' = IF r.called THEN Called(choice, item, r.qty, r.res) ELSE NoCall
           /\ materials' = [materials EXCEPT ![choice] = r.res.recipes]
           /\ choice' = Local(r.pc, choice)
           /\ item' = Local(r.pc, item)
  /\ UNCHANGED file

Next ==
  \/ New
  \/ CallRawUnitsNeeded
  \/ CallListMaterials
  \/ CallListItemsFor
  \/ StartRun
  \/ SelectMaterial
  \/ SelectItem
  \/ EnterQuantity

Spec == Init /\ [][Next]_vars

(***************************************************************************)
(* Properties                                                              *)
(***************************************************************************)
\* a recipe as the data model wants it: batch_output a positive integer,
\* raw_per_batch a number that is not negative
IsNumber(x) == x.t \in {"int", "float"}

ValidRecipe(e) ==
  /\ DOMAIN e = {"batch_output", "raw_per_batch"}
  /\ e.batch_output.t = "int" /\ e.batch_output.v >= 1
  /\ IsNumber(e.raw_per_batch) /\ e.raw_per_batch.v >= 0

IsDict(m) == m \in DOMAIN materials /\ materials[m].t = "dict"

\* the latest step called raw_units_needed for an item the material has
CallOfKnownItem ==
  /\ call.made
  /\ IsDict(call.material)
  /\ call.item \in DOMAIN materials[call.material].items

CallEntry == materials[call.material].items[call.item]

\* the latest step called raw_units_needed for a valid recipe and a
\* positive quantity
ValidCall ==
  /\ CallOfKnownItem
  /\ ValidRecipe(CallEntry)
  /\ call.quantity # <<>>

\* ceil(q / b), exactly
ExactCeiling(q, b) ==
  LET dm == BigDivMod(q, b)
  IN  IF dm.rem = 0 THEN dm.quot ELSE BigMulAdd(dm.quot, 1, 1)

ExactUnits(e, q) ==
  FloatMul(ExactCeiling(q, e.batch_output.v), float_of(e.raw_per_batch).value)

\* C1: for every valid recipe (b, r) and every positive integer quantity q,
\* raw_units_needed returns exactly ceil(q / b) * r.
C1_ExactCeilingTimesCost ==
  ValidCall => call.exc = "none" /\ call.value = ExactUnits(CallEntry, call.quantity)

\* C1 for the quantities below 2^52, where the double quotient has the
\* ceiling of the exact quotient for every batch size of the model
C1_ExactBelow2p52 ==
  ValidCall /\ BigLess(call.quantity, BigPow2(52))
    => call.exc = "none" /\ call.value = ExactUnits(CallEntry, call.quantity)

\* the file could not be read, or parsed, or does not hold
\* {material: {item: {batch_output, raw_per_batch}}}
WellShaped(f) ==
  /\ f.kind = "object"
  /\ \A m \in DOMAIN f.data :
       /\ f.data[m].t = "dict"
       /\ \A i \in DOMAIN f.data[m].items :
            LET e == f.data[m].items[i]
            IN  /\ DOMAIN e = {"batch_output", "raw_per_batch"}
                /\ IsNumber(e.batch_output)
                /\ IsNumber(e.raw_per_batch)

\* C2: constructing the catalog never raises, and when the configuration
\* source is missing, unreadable, unparseable or of another shape the
\* catalog is the built-in default.
C2_ConstructionNeverRaises ==
  [][pc = "start" =>
       /\ pc' = "constructed"
       /\ error' = "none"
       /\ ~WellShaped(file) => materials' = DefaultRecipes]_vars

AtPrompt == pc \in {"SelectMaterial", "SelectItem", "EnterQuantity"}

\* C3: in run() no error is fatal: a line entered at a prompt never ends
\* the program with an uncaught exception, every rejected entry leads back
\* to the material prompt, and the loop ends only by the quit sentinel at
\* the material prompt.
C3_NoErrorIsFatal ==
  [][AtPrompt /\ ~line'.eof =>
       /\ pc' # "Crashed"
       /\ error' = "none"
       /\ out'.msg \in {"invalid_material", "item_not_found", "bad_quantity",
                        "result"} => pc' = "SelectMaterial"
       /\ pc' = "Done" => pc = "SelectMaterial" /\ lower(strip(line'.text)) = quit]_vars

\* C4: raw_units_needed for an item that is no key of the material's
\* recipes raises the invalid-item error (ValueError) for every quantity,
\* returns nothing and leaves the recipes as they were; in run() an unknown
\* item at the item prompt prints the diagnostic and leads back to the
\* material prompt without a call of raw_units_needed.
C4_UnknownItem ==
  [][/\ (call'.made /\ call'.material \in DOMAIN materials
          /\ materials[call'.material].t = "dict"
          /\ call'.item \notin DOMAIN materials[call'.material].items)
         => /\ call'.exc = "ValueError"
            /\ call'.value = NoFloat
            /\ materials' = materials
     /\ (pc = "SelectItem" /\ ~line'.eof
          /\ lower(strip(line'.text)) \notin DOMAIN materials[choice].items)
         => /\ pc' = "SelectMaterial"
            /\ out'.msg = "item_not_found"
            /\ error' = "none"
            /\ ~call'.made]_vars

C4_Witness ==
  /\ call.made
  /\ call.exc = "ValueError"
  /\ call.quantity = BigOfNat(MaxQty)
  /\ call.item \notin DOMAIN materials[call.material].items

\* C5: for a valid recipe raw_units_needed is monotonically non-decreasing
\* in the quantity and never negative: the value of a call is at least the
\* value for every smaller positive quantity.
C5_Monotone ==
  ValidCall =>
    /\ call.exc = "none"
    /\ ~FloatNegative(call.value)
    /\ \A q1 \in ApiQuantities \ {<<>>} :
         BigLeq(q1, call.quantity) =>
           FloatLeq(raw_units_needed(materials[call.material], call.item, q1).value,
                    call.value)

\* a call for a quantity above 2^52 whose value exceeds that of a small one
C5_Witness ==
  /\ ValidCall
  /\ BigLess(BigPow2(52), call.quantity)
  /\ call.exc = "none"
  /\ BigLess(raw_units_needed(materials[call.material], call.item,
                              BigOfNat(MaxQty)).value.mag,
             call.value.mag)

\* an entry that is a positive integer: decimal digits, not all zero
IsPositiveInteger(s) ==
  /\ s # <<>>
  /\ \A i \in 1..Len(s) : IsDecimalChar(s[i])
  /\ \E i \in 1..Len(s) : DigitValue(s[i]) # 0

\* C6: in run() a quantity entry that is not a positive integer is rejected
\* with the diagnostic and the loop returns to the material prompt; and
\* whenever the loop calls raw_units_needed the item is a key of the
\* selected material's recipes and the quantity is an integer >= 1.
C6_QuantityValidated ==
  [][/\ (pc = "EnterQuantity" /\ ~line'.eof /\ ~IsPositiveInteger(strip(line'.text)))
         => pc' = "SelectMaterial" /\ out'.msg = "bad_quantity" /\ ~call'.made
     /\ (pc = "EnterQuantity" /\ call'.made)
         => /\ call'.material = choice /\ call'.item = item
            /\ IsDict(choice) /\ item \in DOMAIN materials[choice].items
            /\ call'.quantity # <<>>]_vars

\* C7: the quit sentinel ('q' after strip and lower) at the material prompt
\* ends the session, whatever the catalog holds and whatever came before:
\* the loop is done, and nothing is prompted, computed or printed after.
C7_QuitEndsSession ==
  [][/\ (pc = "SelectMaterial" /\ ~line'.eof /\ lower(strip(line'.text)) = quit)
         => pc' = "Done" /\ out'.msg = "goodbye" /\ error' = "none" /\ ~call'.made
     /\ pc # "Done"]_vars

\* the session was quit with a material named like the sentinel in the
\* catalog, by a line that is not the bare sentinel
C7_Witness ==
  /\ pc = "Done"
  /\ quit \in DOMAIN materials
  /\ line.text # quit

\* C8: every recipe of the constructed catalog has batch_output >= 1 (a
\* positive integer) and raw_per_batch >= 0.
C8_RecipesValid ==
  pc \notin {"start", "Crashed"} =>
    \A m \in DOMAIN materials :
      /\ materials[m].t = "dict"
      /\ \A i \in DOMAIN materials[m].items : ValidRecipe(materials[m].items[i])

\* C9: every material name list_materials shows is selected by typing it
\* as shown, and every item name list_items_for shows is accepted at the
\* item prompt (for the materials whose items can be listed and whose name
\* is not the quit sentinel).
C9_ListedNamesSelectable ==
  [][/\ (pc = "SelectMaterial" /\ ~line'.eof /\ line'.text \in DOMAIN materials
          /\ line'.text # quit
          /\ list_items_for(materials, line'.text) = "none")
         => pc' = "SelectItem" /\ choice' = line'.text
     /\ (pc = "SelectItem" /\ ~line'.eof
          /\ line'.text \in DOMAIN materials[choice].items)
         => pc' = "EnterQuantity" /\ item' = line'.text]_vars

\* C10: the catalog is never changed after construction, by no direct
\* call and no entry in run(), and a call of raw_units_needed made again
\* with the same material, item and quantity has the same outcome.
C10_CatalogFrozen ==
  /\ [][pc # "start" => materials' = materials]_vars
  /\ [](call.made =>
          LET again == raw_units_needed(materials[call.material], call.item,
                                        call.quantity)
          IN  again.exc = call.exc /\ again.value = call.value)

\* run() has printed a result for the last recipe of the default catalog
C10_Witness ==
  /\ out.msg = "result"
  /\ call.made
  /\ call.material = cobblestone
  /\ materials = DefaultRecipes

=============================================================================
